---------------------------- MODULE Spec2Model ----------------------------
(***************************************************************************)
(* Model of the medicine-ordering MCP server (src/main.py): the five tool  *)
(* handlers, the tool router, and the asyncio request handler with its     *)
(* suspension points.                                                      *)
(*                                                                         *)
(* Representation.  A Python str that the code searches inside (medicine   *)
(* names, catalog keys, categories, queries) is a tuple of one-character   *)
(* strings, so that lower(), replace(" ", "") and the `in` substring test  *)
(* are computed character by character.  A str that the code only compares *)
(* for equality or interpolates (dosages, order ids, tool and method       *)
(* names, descriptions) is a TLA+ string.  Prices are in cents.  A JSON    *)
(* number n is [int |-> n]; a JSON string used where a number is expected  *)
(* is [str |-> s].  A result's "isError" key, absent in the code on        *)
(* success, is the field isError = FALSE.  The f-string texts are records  *)
(* of the template's name (msg) and its interpolated fields.               *)
(***************************************************************************)
EXTENDS Integers, Sequences, FiniteSets, TLC

VARIABLES
    orders,   \* the module-level list `orders` (src/main.py:30)
    conn,     \* per connection: the frame of its handle_mcp_request invocation
    issued    \* history: the summaries returned by successful place_order calls

vars == <<orders, conn, issued>>

(***************************************************************************)
(* Bounds of the model.                                                    *)
(***************************************************************************)
MaxOrders == 2      \* requests are accepted while the ledger can stay within this
MaxMeds == 3        \* longest `medicines` list given to check_drug_interactions

None == "<None>"    \* Python's None (an absent optional argument, an absent id)

(***************************************************************************)
(* str methods and operators                                               *)
(***************************************************************************)
UPPERCASE ==
    <<"A","B","C","D","E","F","G","H","I","J","K","L","M",
      "N","O","P","Q","R","S","T","U","V","W","X","Y","Z">>

LOWERCASE ==
    <<"a","b","c","d","e","f","g","h","i","j","k","l","m",
      "n","o","p","q","r","s","t","u","v","w","x","y","z">>

lower_char(c) ==
    IF \E i \in 1..Len(UPPERCASE) : UPPERCASE[i] = c
    THEN LOWERCASE[CHOOSE i \in 1..Len(UPPERCASE) : UPPERCASE[i] = c]
    ELSE c

\* s.lower()
lower(s) == [i \in 1..Len(s) |-> lower_char(s[i])]

IsNotSpace(c) == c # " "

\* s.replace(" ", "")
replace_spaces(s) == SelectSeq(s, IsNotSpace)

\* needle in hay  (str containment; the empty str is in every str)
str_in(needle, hay) ==
    \E k \in 0..(Len(hay) - Len(needle)) :
        \A i \in 1..Len(needle) : hay[k + i] = needle[i]

DIGITS == <<"0","1","2","3","4","5","6","7","8","9">>

RECURSIVE decimal(_)
\* str(n) of a non-negative int, as the f-string formats it
decimal(n) ==
    IF n < 10 THEN DIGITS[n + 1]
    ELSE decimal(n \div 10) \o DIGITS[(n % 10) + 1]

\* the empty dict {}
EmptyDict == <<>>

\* dict.get(key, default)
Get(d, key, default) == IF key \in DOMAIN d THEN d[key] ELSE default

\* x in list
list_in(x, list) == \E i \in 1..Len(list) : list[i] = x

\* Python truthiness of an optional str: None and "" are falsy
Truthy(s) == s # None /\ s # ""

(***************************************************************************)
(* MEDICINES, in the dict's insertion order (which Python iterates in).    *)
(***************************************************************************)
MEDICINES == <<
    [key |-> <<"l","i","s","i","n","o","p","r","i","l">>,
     name |-> <<"L","i","s","i","n","o","p","r","i","l">>,
     dosages |-> <<"5mg", "10mg", "20mg">>, price |-> 1599,
     category |-> <<"A","C","E"," ","I","n","h","i","b","i","t","o","r">>],
    [key |-> <<"m","e","t","f","o","r","m","i","n">>,
     name |-> <<"M","e","t","f","o","r","m","i","n">>,
     dosages |-> <<"500mg", "850mg", "1000mg">>, price |-> 1250,
     category |-> <<"A","n","t","i","d","i","a","b","e","t","i","c">>],
    [key |-> <<"a","t","o","r","v","a","s","t","a","t","i","n">>,
     name |-> <<"A","t","o","r","v","a","s","t","a","t","i","n">>,
     dosages |-> <<"10mg", "20mg", "40mg">>, price |-> 1875,
     category |-> <<"S","t","a","t","i","n">>],
    [key |-> <<"o","m","e","p","r","a","z","o","l","e">>,
     name |-> <<"O","m","e","p","r","a","z","o","l","e">>,
     dosages |-> <<"20mg", "40mg">>, price |-> 999,
     category |-> <<"P","P","I">>],
    [key |-> <<"a","m","l","o","d","i","p","i","n","e">>,
     name |-> <<"A","m","l","o","d","i","p","i","n","e">>,
     dosages |-> <<"5mg", "10mg">>, price |-> 1425,
     category |-> <<"C","a","l","c","i","u","m"," ","C","h","a","n","n","e","l"," ",
                    "B","l","o","c","k","e","r">>],
    [key |-> <<"i","b","u","p","r","o","f","e","n">>,
     name |-> <<"I","b","u","p","r","o","f","e","n">>,
     dosages |-> <<"200mg", "400mg", "600mg">>, price |-> 850,
     category |-> <<"N","S","A","I","D">>],
    [key |-> <<"a","c","e","t","a","m","i","n","o","p","h","e","n">>,
     name |-> <<"A","c","e","t","a","m","i","n","o","p","h","e","n">>,
     dosages |-> <<"325mg", "500mg", "650mg">>, price |-> 799,
     category |-> <<"A","n","a","l","g","e","s","i","c">>],
    [key |-> <<"a","s","p","i","r","i","n">>,
     name |-> <<"A","s","p","i","r","i","n">>,
     dosages |-> <<"81mg", "325mg">>, price |-> 699,
     category |-> <<"N","S","A","I","D","/","A","n","t","i","p","l","a","t","e","l","e","t">>],
    [key |-> <<"l","o","s","a","r","t","a","n">>,
     name |-> <<"L","o","s","a","r","t","a","n">>,
     dosages |-> <<"25mg", "50mg", "100mg">>, price |-> 1650,
     category |-> <<"A","R","B">>],
    [key |-> <<"g","a","b","a","p","e","n","t","i","n">>,
     name |-> <<"G","a","b","a","p","e","n","t","i","n">>,
     dosages |-> <<"100mg", "300mg", "600mg">>, price |-> 2200,
     category |-> <<"A","n","t","i","c","o","n","v","u","l","s","a","n","t">>]
>>

(***************************************************************************)
(* TOOLS: the five descriptors, by name, property names and required list. *)
(***************************************************************************)
TOOLS == <<
    [name |-> "search_medicines",
     properties |-> <<"query">>, required |-> <<"query">>],
    [name |-> "check_availability",
     properties |-> <<"medicine_name", "dosage">>, required |-> <<"medicine_name">>],
    [name |-> "place_order",
     properties |-> <<"medicine_name", "dosage", "quantity", "patient_id">>,
     required |-> <<"medicine_name", "dosage", "quantity">>],
    [name |-> "check_drug_interactions",
     properties |-> <<"medicines">>, required |-> <<"medicines">>],
    [name |-> "get_order_status",
     properties |-> <<"order_id">>, required |-> <<"order_id">>]
>>

(***************************************************************************)
(* search_medicines                                                        *)
(***************************************************************************)
category_aliases == <<
    [alias |-> <<"b","l","o","o","d"," ","p","r","e","s","s","u","r","e">>,
     categories |-> << <<"a","c","e"," ","i","n","h","i","b","i","t","o","r">>,
                       <<"a","r","b">>,
                       <<"c","a","l","c","i","u","m"," ","c","h","a","n","n","e","l"," ",
                         "b","l","o","c","k","e","r">> >>],
    [alias |-> <<"d","i","a","b","e","t","e","s">>,
     categories |-> << <<"a","n","t","i","d","i","a","b","e","t","i","c">> >>],
    [alias |-> <<"c","h","o","l","e","s","t","e","r","o","l">>,
     categories |-> << <<"s","t","a","t","i","n">> >>],
    [alias |-> <<"p","a","i","n">>,
     categories |-> << <<"n","s","a","i","d">>, <<"a","n","a","l","g","e","s","i","c">> >>]
>>

RECURSIVE extend_terms(_, _, _)
\* the loop over category_aliases.items() that extends search_terms
extend_terms(search_terms, query_lower, a) ==
    IF a > Len(category_aliases) THEN search_terms
    ELSE extend_terms(
            IF str_in(category_aliases[a].alias, query_lower)
            THEN search_terms \o category_aliases[a].categories
            ELSE search_terms,
            query_lower, a + 1)

\* the condition of the inner loop: some term is in the key, category or name
term_matches(search_terms, med) ==
    \E t \in 1..Len(search_terms) :
        \/ str_in(search_terms[t], med.key)
        \/ str_in(search_terms[t], lower(med.category))
        \/ str_in(search_terms[t], lower(med.name))

RECURSIVE collect_results(_, _, _)
\* the loop over MEDICINES.items(): a matching record is appended unless present
collect_results(search_terms, results, m) ==
    IF m > Len(MEDICINES) THEN results
    ELSE collect_results(
            search_terms,
            IF term_matches(search_terms, MEDICINES[m])
               /\ ~list_in(MEDICINES[m], results)
            THEN Append(results, MEDICINES[m])
            ELSE results,
            m + 1)

search_medicines(query) ==
    LET query_lower == lower(query)
        search_terms == extend_terms(<<query_lower>>, query_lower, 1)
        results == collect_results(search_terms, <<>>, 1)
    IN  IF results # <<>>
        THEN [text |-> [msg |-> "Found", query |-> query,
                        names |-> [i \in 1..Len(results) |-> results[i].name]],
              isError |-> FALSE]
        ELSE [text |-> [msg |-> "No medicines found", query |-> query],
              isError |-> FALSE]

(***************************************************************************)
(* Name resolution, as written in check_availability and in place_order    *)
(***************************************************************************)
\* (mutation) the containment is tested in both directions
key_matches_either_way(med_key, med) ==
    \/ str_in(med_key, med.key)
    \/ str_in(med.key, med_key)

\* the loop's condition: med_key in key or med_key in name.lower().replace(" ", "")
key_matches(med_key, med) ==
    \/ str_in(med_key, med.key)
    \/ str_in(med_key, replace_spaces(lower(med.name)))

RECURSIVE find_med(_, _)
\* for key, med in MEDICINES.items(): if ...: found_med = med; break
\* The index of found_med in MEDICINES, 0 for found_med = None.
find_med(med_key, m) ==
    IF m > Len(MEDICINES) THEN 0
    ELSE IF key_matches(med_key, MEDICINES[m]) THEN m
    ELSE find_med(med_key, m + 1)

check_availability(medicine_name, dosage) ==
    LET med_key == replace_spaces(lower(medicine_name))
        found == find_med(med_key, 1)
    IN  IF found # 0
        THEN LET found_med == MEDICINES[found] IN
             IF Truthy(dosage) /\ ~list_in(dosage, found_med.dosages)
             THEN [text |-> [msg |-> "available but NOT in dosage",
                             medicine |-> found_med.name, dosage |-> dosage,
                             dosages |-> found_med.dosages, price |-> found_med.price],
                   isError |-> FALSE]
             ELSE [text |-> [msg |-> "IN STOCK",
                             medicine |-> found_med.name, dosage |-> dosage,
                             dosages |-> found_med.dosages, price |-> found_med.price,
                             category |-> found_med.category,
                             immediate |-> Truthy(dosage)],
                   isError |-> FALSE]
        ELSE [text |-> [msg |-> "NOT AVAILABLE", medicine_name |-> medicine_name],
              isError |-> FALSE]

(***************************************************************************)
(* place_order                                                             *)
(***************************************************************************)
\* (mutation) the numbering starts one too low
new_order_id_from_1000(ords) == "ORD-" \o decimal(Len(ords) + 1000)

\* f"ORD-{len(orders) + 1001}"
new_order_id(ords) == "ORD-" \o decimal(Len(ords) + 1001)

\* (mutation) the order is put at the front of the list
prepend_order(ords, order) == <<order>> \o ords

\* orders.append(order)
append_order(ords, order) == Append(ords, order)

\* found_med["price"] * quantity is defined for a number only: a float times
\* a str raises TypeError
IsNumber(quantity) == "int" \in DOMAIN quantity

\* (mutation) the dosage is not validated
dosage_unchecked(dosage, found_med) == TRUE

\* dosage in found_med["dosages"]
dosage_valid(dosage, found_med) == list_in(dosage, found_med.dosages)

\* The call's outcome: raised (an exception left the function), ret (the
\* returned result, when none did) and orders (the list after the call).
place_order(medicine_name, dosage, quantity, patient_id, ords) ==
    LET med_key == replace_spaces(lower(medicine_name))
        found == find_med(med_key, 1)
    IN  IF found = 0
        THEN [raised |-> FALSE, orders |-> ords,
              ret |-> [text |-> [msg |-> "Order Failed: not found",
                                 medicine_name |-> medicine_name],
                       isError |-> TRUE]]
        ELSE LET found_med == MEDICINES[found] IN
        IF ~dosage_valid(dosage, found_med)
        THEN [raised |-> FALSE, orders |-> ords,
              ret |-> [text |-> [msg |-> "Order Failed: not valid",
                                 dosage |-> dosage, medicine |-> found_med.name],
                       isError |-> TRUE]]
        ELSE IF ~IsNumber(quantity)
        THEN [raised |-> TRUE, orders |-> ords]
        ELSE LET order == [order_id |-> new_order_id(ords),
                           medicine |-> found_med.name,
                           dosage |-> dosage,
                           quantity |-> quantity.int,
                           patient_id |-> patient_id,
                           unit_price |-> found_med.price,
                           total_price |-> found_med.price * quantity.int,
                           status |-> "PENDING_PHYSICIAN_APPROVAL",
                           created_at |-> "datetime.now().isoformat()"]
             IN  [raised |-> FALSE, orders |-> append_order(ords, order),
                  ret |-> [text |-> [msg |-> "ORDER PLACED",
                                     order_id |-> order.order_id,
                                     medicine |-> order.medicine,
                                     dosage |-> order.dosage,
                                     quantity |-> order.quantity,
                                     total_price |-> order.total_price,
                                     status |-> order.status],
                           isError |-> FALSE]]

(***************************************************************************)
(* check_drug_interactions                                                 *)
(***************************************************************************)
\* the dict `interactions`, in insertion order
interactions == <<
    [drug1 |-> <<"l","i","s","i","n","o","p","r","i","l">>,
     drug2 |-> <<"i","b","u","p","r","o","f","e","n">>,
     severity |-> "MODERATE",
     description |-> "NSAIDs may reduce the antihypertensive effect of ACE inhibitors and increase risk of kidney problems"],
    [drug1 |-> <<"l","i","s","i","n","o","p","r","i","l">>,
     drug2 |-> <<"a","s","p","i","r","i","n">>,
     severity |-> "MINOR",
     description |-> "Low-dose aspirin is generally safe with ACE inhibitors"],
    [drug1 |-> <<"m","e","t","f","o","r","m","i","n">>,
     drug2 |-> <<"i","b","u","p","r","o","f","e","n">>,
     severity |-> "MINOR",
     description |-> "NSAIDs may slightly increase risk of lactic acidosis with metformin"],
    [drug1 |-> <<"a","t","o","r","v","a","s","t","a","t","i","n">>,
     drug2 |-> <<"a","m","l","o","d","i","p","i","n","e">>,
     severity |-> "SAFE",
     description |-> "No significant interaction - commonly prescribed together"],
    [drug1 |-> <<"l","i","s","i","n","o","p","r","i","l">>,
     drug2 |-> <<"m","e","t","f","o","r","m","i","n">>,
     severity |-> "SAFE",
     description |-> "Commonly prescribed together for diabetic patients with hypertension"],
    [drug1 |-> <<"l","i","s","i","n","o","p","r","i","l">>,
     drug2 |-> <<"l","o","s","a","r","t","a","n">>,
     severity |-> "SEVERE",
     description |-> "Do NOT combine ACE inhibitors with ARBs - increased risk of hyperkalemia and kidney damage"],
    [drug1 |-> <<"i","b","u","p","r","o","f","e","n">>,
     drug2 |-> <<"a","s","p","i","r","i","n">>,
     severity |-> "MODERATE",
     description |-> "NSAIDs may reduce cardioprotective effect of low-dose aspirin"],
    [drug1 |-> <<"g","a","b","a","p","e","n","t","i","n">>,
     drug2 |-> <<"o","p","i","o","i","d","s">>,
     severity |-> "SEVERE",
     description |-> "Increased risk of respiratory depression - use with extreme caution"]
>>

\* (drug in med or med in drug)
either_in(drug, med) == str_in(drug, med) \/ str_in(med, drug)

\* the if condition: the rule matches (med1, med2) as (drug1, drug2)
if_matches(rule, med1, med2) ==
    either_in(rule.drug1, med1) /\ either_in(rule.drug2, med2)

\* (mutation) the reversed orientation is never tested
elif_never(rule, med1, med2) == FALSE

\* the elif condition: the rule matches (med1, med2) as (drug2, drug1)
elif_matches(rule, med1, med2) ==
    either_in(rule.drug2, med1) /\ either_in(rule.drug1, med2)

\* list.index(x): the first position holding x
index(list, x) == CHOOSE i \in 1..Len(list) :
                      list[i] = x /\ \A k \in 1..(i - 1) : list[k] # x

\* the dict appended by either branch
interaction_entry(medicines, medicines_lower, med1, med2, rule) ==
    [drugs |-> <<medicines[index(medicines_lower, med1)],
                 medicines[index(medicines_lower, med2)]>>,
     severity |-> rule.severity,
     description |-> rule.description]

\* (mutation) two independent ifs: a rule matching both ways appends twice
match_rule_twice(found, entry, rule, med1, med2) ==
    LET once == IF if_matches(rule, med1, med2) THEN Append(found, entry) ELSE found
    IN  IF elif_matches(rule, med1, med2) THEN Append(once, entry) ELSE once

\* the if / elif on one rule: at most one branch appends the entry
match_rule(found, entry, rule, med1, med2) ==
    IF if_matches(rule, med1, med2) THEN Append(found, entry)
    ELSE IF elif_matches(rule, med1, med2) THEN Append(found, entry)
    ELSE found

RECURSIVE find_interactions(_, _, _, _, _, _)
\* the three nested loops: i over the list, j over medicines_lower[i+1:],
\* r over interactions.items(); found is found_interactions so far
find_interactions(medicines, medicines_lower, i, j, r, found) ==
    IF i > Len(medicines_lower) THEN found
    ELSE IF j > Len(medicines_lower)
    THEN find_interactions(medicines, medicines_lower, i + 1, i + 2, 1, found)
    ELSE IF r > Len(interactions)
    THEN find_interactions(medicines, medicines_lower, i, j + 1, 1, found)
    ELSE LET med1 == medicines_lower[i]
             med2 == medicines_lower[j]
             rule == interactions[r]
             entry == interaction_entry(medicines, medicines_lower, med1, med2, rule)
         IN  find_interactions(medicines, medicines_lower, i, j, r + 1,
                 match_rule(found, entry, rule, med1, med2))

\* severity_order.get(x["severity"], 4)
severity_key(x) ==
    CASE x.severity = "SEVERE" -> 0
      [] x.severity = "MODERATE" -> 1
      [] x.severity = "MINOR" -> 2
      [] x.severity = "SAFE" -> 3
      [] OTHER -> 4

\* (mutation) x placed before the elements of equal key: ties are reversed
insert_before_equal(sorted, x) ==
    LET k == Cardinality({p \in 1..Len(sorted) :
                             severity_key(sorted[p]) < severity_key(x)})
    IN  SubSeq(sorted, 1, k) \o <<x>> \o SubSeq(sorted, k + 1, Len(sorted))

\* x placed after every element whose key is not greater: a stable insertion
insert_by_key(sorted, x) ==
    LET k == Cardinality({p \in 1..Len(sorted) :
                             severity_key(sorted[p]) <= severity_key(x)})
    IN  SubSeq(sorted, 1, k) \o <<x>> \o SubSeq(sorted, k + 1, Len(sorted))

RECURSIVE sort_by_severity(_, _, _)
\* found_interactions.sort(key=...): list.sort is stable
sort_by_severity(list, p, sorted) ==
    IF p > Len(list) THEN sorted
    ELSE sort_by_severity(list, p + 1, insert_by_key(sorted, list[p]))

check_drug_interactions(medicines) ==
    LET medicines_lower ==
            [i \in 1..Len(medicines) |-> replace_spaces(lower(medicines[i]))]
        found_interactions ==
            find_interactions(medicines, medicines_lower, 1, 2, 1, <<>>)
    IN  IF found_interactions # <<>>
        THEN [text |-> [msg |-> "Drug Interaction Check",
                        medicines |-> medicines,
                        interactions |-> sort_by_severity(found_interactions, 1, <<>>)],
              isError |-> FALSE]
        ELSE [text |-> [msg |-> "No known interactions found",
                        medicines |-> medicines],
              isError |-> FALSE]

(***************************************************************************)
(* get_order_status                                                        *)
(***************************************************************************)
RECURSIVE get_order_status_from(_, _, _)
\* for order in orders: if order["order_id"] == order_id: return ...
get_order_status_from(order_id, ords, i) ==
    IF i > Len(ords)
    THEN [text |-> [msg |-> "Order not found", order_id |-> order_id],
          isError |-> TRUE]
    ELSE IF ords[i].order_id = order_id
    THEN [text |-> [msg |-> "Order", order_id |-> ords[i].order_id,
                    medicine |-> ords[i].medicine, dosage |-> ords[i].dosage,
                    quantity |-> ords[i].quantity, status |-> ords[i].status],
          isError |-> FALSE]
    ELSE get_order_status_from(order_id, ords, i + 1)

\* (mutation) the scan misses the first order
get_order_status_skip_first(order_id, ords) ==
    get_order_status_from(order_id, ords, 2)

get_order_status(order_id, ords) == get_order_status_from(order_id, ords, 1)

(***************************************************************************)
(* handle_tool_call                                                        *)
(***************************************************************************)
\* a handler that neither raises nor touches `orders`
Returns(ret, ords) == [raised |-> FALSE, orders |-> ords, ret |-> ret]

handle_tool_call(name, arguments, ords) ==
    IF name = "search_medicines"
    THEN Returns(search_medicines(Get(arguments, "query", <<>>)), ords)
    ELSE IF name = "check_availability"
    THEN Returns(check_availability(Get(arguments, "medicine_name", <<>>),
                                    Get(arguments, "dosage", None)), ords)
    ELSE IF name = "place_order"
    THEN place_order(Get(arguments, "medicine_name", <<>>),
                     Get(arguments, "dosage", ""),
                     Get(arguments, "quantity", [int |-> 30]),
                     Get(arguments, "patient_id", "UNKNOWN"), ords)
    ELSE IF name = "check_drug_interactions"
    THEN Returns(check_drug_interactions(Get(arguments, "medicines", <<>>)), ords)
    ELSE IF name = "get_order_status"
    THEN Returns(get_order_status(Get(arguments, "order_id", ""), ords), ords)
    ELSE Returns([text |-> [msg |-> "Unknown tool", name |-> name],
                  isError |-> TRUE], ords)

(***************************************************************************)
(* handle_mcp_request                                                      *)
(*                                                                         *)
(* One invocation runs per connection.  asyncio suspends it only at its    *)
(* awaits, so each stretch of code between two awaits is one action:       *)
(*   pc = "json"     suspended in  await request.json()                    *)
(*   pc = "prepare"  suspended in  await response.prepare(request)         *)
(*   pc = "write"    suspended in  await response.write(...)               *)
(*   pc = "done"     returned the stream response (the event was written)  *)
(*   pc = "rejected" returned the 400 response for an unparseable body     *)
(*   pc = "raised"   an exception left the handler (no event was written)  *)
(***************************************************************************)
Conns == {"c1", "c2"}

Idle == [pc |-> "idle"]

\* the routing on `method`, from the parsed body to `result`
dispatch_method(body, ords) ==
    LET method == Get(body, "method", "")
        params == Get(body, "params", EmptyDict)
    IN  IF method = "initialize"
        THEN Returns([protocolVersion |-> "2024-11-05",
                      capabilities |-> [tools |-> EmptyDict],
                      serverInfo |-> [name |-> "medicine-order-server",
                                      version |-> "1.0.0"]], ords)
        ELSE IF method = "tools/list"
        THEN Returns([tools |-> TOOLS], ords)
        ELSE IF method = "tools/call"
        THEN handle_tool_call(Get(params, "name", ""),
                              Get(params, "arguments", EmptyDict), ords)
        ELSE Returns([error |-> [code |-> -32601,
                                 message |-> [msg |-> "Unknown method",
                                              method |-> method]]], ords)

\* whether the body is a tools/call of place_order
IsPlaceOrder(request) ==
    /\ request.parse_ok
    /\ Get(request.body, "method", "") = "tools/call"
    /\ Get(Get(request.body, "params", EmptyDict), "name", "") = "place_order"

\* place_order requests accepted and not yet dispatched
PendingPlaceOrders ==
    {c \in Conns : conn[c].pc = "json" /\ IsPlaceOrder(conn[c].request)}

\* aiohttp starts the handler for a request; it runs up to await request.json()
Accept(c, request) ==
    /\ conn[c].pc = "idle"
    /\ IsPlaceOrder(request) =>
           Len(orders) + Cardinality(PendingPlaceOrders) < MaxOrders
    /\ conn' = [conn EXCEPT ![c] = [pc |-> "json", request |-> request]]
    /\ UNCHANGED <<orders, issued>>

\* request.json() raises: the except branch returns the 400 response
JsonFails(c) ==
    /\ conn[c].pc = "json"
    /\ ~conn[c].request.parse_ok
    /\ conn' = [conn EXCEPT ![c] = [pc |-> "rejected", request |-> conn[c].request,
                                    status |-> 400]]
    /\ UNCHANGED <<orders, issued>>

\* request.json() returns the body: the method is routed, the tool runs, and
\* the handler suspends in response.prepare (or the tool's exception leaves it)
Dispatch(c) ==
    /\ conn[c].pc = "json"
    /\ conn[c].request.parse_ok
    /\ LET body == conn[c].request.body
           request_id == Get(body, "id", None)
           out == dispatch_method(body, orders)
       IN  /\ orders' = out.orders
           /\ issued' = IF IsPlaceOrder(conn[c].request) /\ ~out.raised
                           /\ ~out.ret.isError
                        THEN Append(issued, out.ret.text)
                        ELSE issued
           /\ conn' = [conn EXCEPT ![c] =
                         IF out.raised
                         THEN [pc |-> "raised", request |-> conn[c].request]
                         ELSE [pc |-> "prepare", request |-> conn[c].request,
                               request_id |-> request_id, result |-> out.ret]]

\* response.prepare returns: the message is built and handed to response.write
Prepared(c) ==
    /\ conn[c].pc = "prepare"
    /\ conn' = [conn EXCEPT ![c] =
                  [pc |-> "write", request |-> conn[c].request,
                   message |-> [jsonrpc |-> "2.0", id |-> conn[c].request_id,
                                result |-> conn[c].result]]]
    /\ UNCHANGED <<orders, issued>>

\* response.write returns: the one event is on the wire, the handler returns
Written(c) ==
    /\ conn[c].pc = "write"
    /\ conn' = [conn EXCEPT ![c] =
                  [pc |-> "done", request |-> conn[c].request,
                   sent |-> <<conn[c].message>>]]
    /\ UNCHANGED <<orders, issued>>

\* the connection is finished with; a later request may use it
Close(c) ==
    /\ conn[c].pc \in {"done", "rejected", "raised"}
    /\ conn' = [conn EXCEPT ![c] = Idle]
    /\ UNCHANGED <<orders, issued>>

(***************************************************************************)
(* Requests                                                                *)
(***************************************************************************)
\* a body request.json() cannot parse
Unparseable == [parse_ok |-> FALSE]

Rpc(method, id) == [parse_ok |-> TRUE, body |-> [method |-> method, id |-> id]]

RpcNoId(method) == [parse_ok |-> TRUE, body |-> [method |-> method]]

Call(name, arguments, id) ==
    [parse_ok |-> TRUE,
     body |-> [method |-> "tools/call", id |-> id,
               params |-> [name |-> name, arguments |-> arguments]]]

s_aspirin == <<"a","s","p","i","r","i","n">>
s_Lisinopril == <<"L","i","s","i","n","o","p","r","i","l">>
s_lisinopril == <<"l","i","s","i","n","o","p","r","i","l">>
s_lisinopril10mg == <<"l","i","s","i","n","o","p","r","i","l","1","0","m","g">>
s_Lisinopril_10mg == <<"L","i","s","i","n","o","p","r","i","l"," ","1","0","m","g">>
s_met_formin == <<"M","e","t"," ","F","o","r","m","i","n">>
s_metformin == <<"m","e","t","f","o","r","m","i","n">>
s_in == <<"i","n">>
s_PRIL == <<"P","R","I","L">>
s_opioids == <<"o","p","i","o","i","d","s">>
s_Ibuprofen == <<"I","b","u","p","r","o","f","e","n">>
s_losartan == <<"l","o","s","a","r","t","a","n">>
s_omeprazole == <<"o","m","e","p","r","a","z","o","l","e">>
s_gabapentin == <<"g","a","b","a","p","e","n","t","i","n">>
s_blood_pressure == <<"B","l","o","o","d"," ","p","r","e","s","s","u","r","e">>
s_zzz == <<"z","z","z">>

\* The requests of the concurrent specification: every method, every tool,
\* every outcome of place_order, under two ids and without an id.
Requests ==
    { Unparseable,
      Rpc("initialize", "a"), RpcNoId("tools/list"), Rpc("ping", "b"),
      Call("teleport", EmptyDict, "a"),
      Call("search_medicines", [query |-> s_blood_pressure], "b"),
      Call("search_medicines", [query |-> s_zzz], "a"),
      Call("check_availability", [medicine_name |-> s_aspirin, dosage |-> "10mg"], "b"),
      Call("check_availability", [medicine_name |-> s_opioids], "a"),
      Call("check_drug_interactions", [medicines |-> <<s_lisinopril, s_losartan>>], "b"),
      Call("check_drug_interactions", [medicines |-> <<s_omeprazole, s_gabapentin>>], "a"),
      Call("get_order_status", [order_id |-> "ORD-1001"], "a"),
      Call("get_order_status", [order_id |-> "ORD-1002"], "b"),
      Call("get_order_status", [order_id |-> "ORD-1003"], "a"),
      Call("get_order_status", [order_id |-> "ord-1001"], "b"),
      Call("place_order", [medicine_name |-> s_Lisinopril, dosage |-> "10mg",
                           patient_id |-> "P-1"], "a"),
      Call("place_order", [medicine_name |-> s_aspirin, dosage |-> "81mg",
                           quantity |-> [int |-> 0]], "b"),
      Call("place_order", [medicine_name |-> s_metformin, dosage |-> "999mg",
                           quantity |-> [int |-> 30]], "a"),
      Call("place_order", [medicine_name |-> s_opioids, dosage |-> "10mg",
                           quantity |-> [int |-> 1]], "b"),
      Call("place_order", [medicine_name |-> s_aspirin, dosage |-> "81mg",
                           quantity |-> [str |-> "ten"]], "a") }

\* Inputs of the single-call specifications.
NameInputs ==
    { s_aspirin, s_Lisinopril, s_lisinopril10mg, s_met_formin, s_in, s_PRIL,
      s_opioids, <<>> }

DosageInputs == {"10mg", "81mg", "500mg", "999mg", ""}

QuantityInputs ==
    {[int |-> 30], [int |-> 1], [int |-> 0], [int |-> -5], [str |-> "ten"]}

MedicineInputs ==
    { s_lisinopril, s_Ibuprofen, s_aspirin, s_Lisinopril_10mg, s_in, <<>> }

PairInputs == MedicineInputs \cup { s_losartan, s_metformin, s_opioids }

SeqsUpTo(S, n) == UNION {[1..k -> S] : k \in 0..n}

PlaceOrderCalls ==
    { Call("place_order",
           [medicine_name |-> n, dosage |-> d, quantity |-> q, patient_id |-> "P-1"],
           "a") : n \in NameInputs, d \in DosageInputs, q \in QuantityInputs }
    \cup
    { Call("place_order", [medicine_name |-> n, dosage |-> d], "a") :
           n \in NameInputs, d \in DosageInputs }

CheckAvailabilityCalls ==
    { Call("check_availability", [medicine_name |-> n, dosage |-> d], "a") :
           n \in NameInputs, d \in DosageInputs }
    \cup
    { Call("check_availability", [medicine_name |-> n], "a") : n \in NameInputs }

CheckDrugInteractionsCalls ==
    { Call("check_drug_interactions", [medicines |-> ms], "a") :
           ms \in SeqsUpTo(MedicineInputs, MaxMeds) }

CallRequests ==
    PlaceOrderCalls \cup CheckAvailabilityCalls \cup CheckDrugInteractionsCalls

(***************************************************************************)
(* Specifications                                                          *)
(***************************************************************************)
\* The server: both connections idle, the ledger empty.
Init ==
    /\ orders = <<>>
    /\ issued = <<>>
    /\ conn = [c \in Conns |-> Idle]

Next ==
    \E c \in Conns :
        \/ \E request \in Requests : Accept(c, request)
        \/ JsonFails(c)
        \/ Dispatch(c)
        \/ Prepared(c)
        \/ Written(c)
        \/ Close(c)

Spec == Init /\ [][Next]_vars

\* One call: connection c1 has accepted one request out of CallRequests.
InitCalls ==
    /\ orders = <<>>
    /\ issued = <<>>
    /\ \E request \in CallRequests :
           conn = [c \in Conns |->
                     IF c = "c1" THEN [pc |-> "json", request |-> request] ELSE Idle]

NextCalls ==
    \E c \in Conns :
        \/ Dispatch(c)
        \/ Prepared(c)
        \/ Written(c)

SpecCalls == InitCalls /\ [][NextCalls]_vars

\* Two calls of check_drug_interactions, on [a, b] and on [b, a].
InitPairs ==
    /\ orders = <<>>
    /\ issued = <<>>
    /\ \E a \in PairInputs, b \in PairInputs :
           conn = [c \in Conns |->
                     [pc |-> "json",
                      request |-> Call("check_drug_interactions",
                                       [medicines |-> IF c = "c1" THEN <<a, b>>
                                                      ELSE <<b, a>>], c)]]

SpecPairs == InitPairs /\ [][NextCalls]_vars

(***************************************************************************)
(* Properties                                                              *)
(***************************************************************************)
MethodOf(request) == IF request.parse_ok THEN Get(request.body, "method", "") ELSE ""

ToolOf(request) ==
    IF MethodOf(request) = "tools/call"
    THEN Get(Get(request.body, "params", EmptyDict), "name", "")
    ELSE ""

ArgsOf(request) == Get(Get(request.body, "params", EmptyDict), "arguments", EmptyDict)

HasResult(c) == conn[c].pc \in {"prepare", "write", "done"}

ResultOf(c) ==
    CASE conn[c].pc = "prepare" -> conn[c].result
      [] conn[c].pc = "write" -> conn[c].message.result
      [] conn[c].pc = "done" -> conn[c].sent[1].result

\* connection c holds the result of a call of `tool`
Called(c, tool) == HasResult(c) /\ ToolOf(conn[c].request) = tool

\* this step is connection c's handler running `tool` (returning or raising)
ToolStep(c, tool) ==
    /\ conn[c].pc = "json"
    /\ ToolOf(conn[c].request) = tool
    /\ conn'[c].pc \in {"prepare", "raised"}

IsPrefix(s, t) == Len(s) <= Len(t) /\ SubSeq(t, 1, Len(s)) = s

OrderIdTable ==
    <<"ORD-1001", "ORD-1002", "ORD-1003", "ORD-1004", "ORD-1005", "ORD-1006">>

\* C1: after N successful place_order calls, under every interleaving of the
\* in-flight handlers, the ledger holds exactly N orders and their ids, in
\* ledger order, are ORD-1001 .. ORD-(1000+N): gap-free, strictly increasing,
\* pairwise distinct; failed attempts neither consume nor repeat an id.
C1_OrderIdsGapFree ==
    /\ Len(orders) = Len(issued)
    /\ \A i \in 1..Len(orders) :
           /\ orders[i].order_id = OrderIdTable[i]
           /\ issued[i].order_id = OrderIdTable[i]
    /\ \A i, j \in 1..Len(orders) :
           i # j => orders[i].order_id # orders[j].order_id

\* Two orders are in the ledger, the second placed by a handler that is still
\* in flight, while the other in-flight handler holds a failed place_order.
C1_Witness ==
    /\ Len(orders) = 2
    /\ \E c, d \in Conns :
           /\ c # d
           /\ Called(c, "place_order") /\ conn[c].pc # "done"
           /\ ~ResultOf(c).isError /\ ResultOf(c).text.order_id = "ORD-1002"
           /\ Called(d, "place_order") /\ conn[d].pc # "done"
           /\ ResultOf(d).isError

\* the catalog entries the normalized name is contained in (key or name)
ForwardMatches(medicine_name) ==
    LET k == replace_spaces(lower(medicine_name)) IN
    {m \in 1..Len(MEDICINES) :
        \/ str_in(k, MEDICINES[m].key)
        \/ str_in(k, replace_spaces(lower(MEDICINES[m].name)))}

Min(S) == CHOOSE x \in S : \A y \in S : x <= y

\* C2: a place_order call whose name does not resolve or whose dosage is not
\* in the resolved medicine's list returns an error-flagged result and leaves
\* the ledger as it was; a call that succeeds appends exactly one order.
C2_PlaceOrderAllOrNothing ==
    [][\A c \in Conns :
          ToolStep(c, "place_order") /\ conn'[c].pc = "prepare" =>
             LET args == ArgsOf(conn[c].request)
                 M == ForwardMatches(Get(args, "medicine_name", <<>>))
                 dosage == Get(args, "dosage", "")
                 failing ==
                     \/ M = {}
                     \/ \A i \in 1..Len(MEDICINES[Min(M)].dosages) :
                            MEDICINES[Min(M)].dosages[i] # dosage
                 r == conn'[c].result
             IN  /\ failing => r.isError
                 /\ r.isError => orders' = orders
                 /\ ~r.isError => /\ Len(orders') = Len(orders) + 1
                                  /\ SubSeq(orders', 1, Len(orders)) = orders
      ]_vars

\* A non-empty ledger next to a place_order result refused for its dosage and
\* one refused for its name.
C2_Witness ==
    /\ Len(orders) >= 1
    /\ \E c, d \in Conns :
           /\ Called(c, "place_order") /\ ResultOf(c).isError
           /\ ResultOf(c).text.msg = "Order Failed: not valid"
           /\ Called(d, "place_order") /\ ResultOf(d).isError
           /\ ResultOf(d).text.msg = "Order Failed: not found"

\* C3: get_order_status answers "not found", error-flagged, exactly for the
\* ids no successful place_order has issued; for an issued id it answers,
\* without the error flag, the medicine, dosage, quantity and status that
\* place_order reported when it created the order.
C3_StatusMatchesIssued ==
    [][\A c \in Conns :
          ToolStep(c, "get_order_status") =>
             LET order_id == Get(ArgsOf(conn[c].request), "order_id", "")
                 hits == {i \in 1..Len(issued) : issued[i].order_id = order_id}
                 r == conn'[c].result
             IN  /\ conn'[c].pc = "prepare"
                 /\ hits = {} <=> r.isError
                 /\ r.isError => r.text.msg = "Order not found"
                 /\ \A i \in hits :
                       /\ r.text.msg = "Order"
                       /\ r.text.order_id = order_id
                       /\ r.text.medicine = issued[i].medicine
                       /\ r.text.dosage = issued[i].dosage
                       /\ r.text.quantity = issued[i].quantity
                       /\ r.text.status = issued[i].status
      ]_vars

\* The status of the second order was found, and the status of an id never
\* issued was refused, with two orders in the ledger.
C3_Witness ==
    /\ Len(orders) = 2
    /\ \E c, d \in Conns :
           /\ Called(c, "get_order_status") /\ ~ResultOf(c).isError
           /\ ResultOf(c).text.order_id = "ORD-1002"
           /\ ResultOf(c).text.medicine = orders[2].medicine
           /\ orders[1].medicine # orders[2].medicine
           /\ Called(d, "get_order_status") /\ ResultOf(d).isError
           /\ ResultOf(d).text.order_id = "ord-1001"

\* C5: every order in the ledger has a quantity >= 1.
C5_QuantityPositive ==
    \A i \in 1..Len(orders) : orders[i].quantity >= 1

\* C7: the ledger is append-only across every step: the ledger before is a
\* prefix of the ledger after, it grows only by one order and only in a
\* step of a place_order call that returns without the error flag, and every
\* order's status is PENDING_PHYSICIAN_APPROVAL.
C7_LedgerAppendOnly ==
    [][/\ IsPrefix(orders, orders')
       /\ orders' # orders =>
             /\ Len(orders') = Len(orders) + 1
             /\ \E c \in Conns :
                   /\ ToolStep(c, "place_order")
                   /\ conn'[c].pc = "prepare"
                   /\ ~conn'[c].result.isError
       /\ \A i \in 1..Len(orders') :
             orders'[i].status = "PENDING_PHYSICIAN_APPROVAL"
      ]_vars

\* Two orders are in the ledger and requests of other kinds have been
\* answered since: a status lookup and an unknown method.
C7_Witness ==
    /\ Len(orders) = 2
    /\ \E c, d \in Conns :
           /\ conn[c].pc = "done" /\ ToolOf(conn[c].request) = "get_order_status"
           /\ ResultOf(c).text.order_id = "ORD-1002" /\ ~ResultOf(c).isError
           /\ conn[d].pc = "done" /\ MethodOf(conn[d].request) = "ping"

Finished(c) == conn[c].pc \in {"done", "rejected", "raised"}

\* C8: for every parseable request whose method is initialize, tools/list or
\* tools/call, whatever the tool name and arguments, the handler emits exactly
\* one response envelope, whose id is the id of that request.
C8_RecognizedRequestAnswered ==
    \A c \in Conns :
        /\ Finished(c)
        /\ MethodOf(conn[c].request) \in {"initialize", "tools/list", "tools/call"}
        => /\ conn[c].pc = "done"
           /\ Len(conn[c].sent) = 1
           /\ conn[c].sent[1].id = Get(conn[c].request.body, "id", None)

\* the medicine a place_order or check_availability result names as resolved
\* (None when the result reports that the name did not resolve)
ResolvedName(r) ==
    IF r.text.msg \in {"Order Failed: not found", "NOT AVAILABLE"}
    THEN None
    ELSE r.text.medicine

\* the result agrees with resolving to the first catalog entry among M
ResolvesWithin(r, M) ==
    /\ M = {} <=> ResolvedName(r) = None
    /\ M # {} => ResolvedName(r) = MEDICINES[Min(M)].name

\* the catalog entries matching the normalized name in either direction
BidirectionalMatches(medicine_name) ==
    LET k == replace_spaces(lower(medicine_name)) IN
    {m \in 1..Len(MEDICINES) :
        str_in(k, MEDICINES[m].key) \/ str_in(MEDICINES[m].key, k)}

SeverityAndText(r) ==
    IF r.text.msg = "No known interactions found" THEN <<>>
    ELSE [p \in 1..Len(r.text.interactions) |->
             <<r.text.interactions[p].severity, r.text.interactions[p].description>>]

\* C6: check_drug_interactions([a, b]) and check_drug_interactions([b, a])
\* report the same sequence of (severity, description) entries, and either
\* both answer "no known interactions" or neither does.
C6_InteractionsSymmetric ==
    HasResult("c1") /\ HasResult("c2") =>
        /\ SeverityAndText(ResultOf("c1")) = SeverityAndText(ResultOf("c2"))
        /\ ResultOf("c1").text.msg = ResultOf("c2").text.msg

\* Both calls are answered; [losartan, lisinopril] matched its rule in the
\* reversed orientation only, [lisinopril, losartan] in the written one.
C6_Witness ==
    /\ conn["c1"].pc = "done" /\ conn["c2"].pc = "done"
    /\ ArgsOf(conn["c1"].request).medicines = <<s_losartan, s_lisinopril>>
    /\ ArgsOf(conn["c2"].request).medicines = <<s_lisinopril, s_losartan>>
    /\ SeverityAndText(ResultOf("c1")) # <<>>
    /\ ResultOf("c1").text.interactions[1].severity = "SEVERE"

RECURSIVE Normalized(_)
Normalized(medicines) ==
    IF medicines = <<>> THEN <<>>
    ELSE <<replace_spaces(lower(Head(medicines)))>> \o Normalized(Tail(medicines))

\* rule r matches the pair of normalized names in the written orientation
MatchesAsWritten(r, x, y) ==
    /\ str_in(interactions[r].drug1, x) \/ str_in(x, interactions[r].drug1)
    /\ str_in(interactions[r].drug2, y) \/ str_in(y, interactions[r].drug2)

\* the (i, j, r): positions i < j whose pair rule r matches in some orientation
Combinations(medicines) ==
    LET ml == Normalized(medicines) IN
    {t \in (1..Len(ml)) \X (1..Len(ml)) \X (1..Len(interactions)) :
        /\ t[1] < t[2]
        /\ MatchesAsWritten(t[3], ml[t[1]], ml[t[2]])
           \/ MatchesAsWritten(t[3], ml[t[2]], ml[t[1]])}

FirstIndex(list, x) == Min({i \in 1..Len(list) : list[i] = x})

\* the entry reported for the combination t
EntryOf(medicines, t) ==
    LET ml == Normalized(medicines) IN
    [drugs |-> <<medicines[FirstIndex(ml, ml[t[1]])],
                 medicines[FirstIndex(ml, ml[t[2]])]>>,
     severity |-> interactions[t[3]].severity,
     description |-> interactions[t[3]].description]

\* (In the formulas below, \E x \in {e} : P names the value of e as x.)
ReportOf(r) ==
    IF r.text.msg = "No known interactions found" THEN <<>>
    ELSE r.text.interactions

\* C9: the report holds exactly one entry for each combination of a position
\* pair i < j and a rule that matches the pair in at least one orientation,
\* and no other entry; "no known interactions" is answered exactly when there
\* is no such combination.
C9_OneEntryPerPairAndRule ==
    \A c \in Conns :
        Called(c, "check_drug_interactions") =>
            \E medicines \in {Get(ArgsOf(conn[c].request), "medicines", <<>>)} :
            \E combos \in {Combinations(medicines)} :
            \E expected \in {{<<t, EntryOf(medicines, t)>> : t \in combos}} :
            \E report \in {ReportOf(ResultOf(c))} :
                /\ Len(report) = Cardinality(combos)
                /\ \A p \in 1..Len(report) : \E x \in expected : report[p] = x[2]
                /\ \A x \in expected :
                       Cardinality({p \in 1..Len(report) : report[p] = x[2]})
                         = Cardinality({y \in expected : y[2] = x[2]})
                /\ combos = {} <=>
                       ResultOf(c).text.msg = "No known interactions found"

\* A three-element list was answered in which some pair matches some rule in
\* both orientations at once, and yet each combination is reported once.
C9_Witness ==
    \E c \in Conns :
        /\ conn[c].pc = "done"
        /\ Called(c, "check_drug_interactions")
        /\ LET medicines == ArgsOf(conn[c].request).medicines
               ml == Normalized(medicines)
           IN  /\ Len(medicines) = 3
               /\ Len(ReportOf(ResultOf(c))) >= 3
               /\ \E t \in Combinations(medicines) :
                      /\ MatchesAsWritten(t[3], ml[t[1]], ml[t[2]])
                      /\ MatchesAsWritten(t[3], ml[t[2]], ml[t[1]])

Rank(severity) ==
    CASE severity = "SEVERE" -> 0
      [] severity = "MODERATE" -> 1
      [] severity = "MINOR" -> 2
      [] severity = "SAFE" -> 3

\* the combinations in discovery order: by pair position (i, j), then by rule
RECURSIVE InDiscoveryOrder(_)
InDiscoveryOrder(combos) ==
    IF combos = {} THEN <<>>
    ELSE LET first == CHOOSE t \in combos : \A u \in combos :
                          \/ t[1] < u[1]
                          \/ t[1] = u[1] /\ t[2] < u[2]
                          \/ t[1] = u[1] /\ t[2] = u[2] /\ t[3] <= u[3]
         IN  <<first>> \o InDiscoveryOrder(combos \ {first})

\* C10: the entries of a report are in non-decreasing severity rank
\* (SEVERE < MODERATE < MINOR < SAFE), and the entries of one severity are in
\* discovery order: by pair position (i, j), then by rule order.
C10_SortedBySeverityStable ==
    \A c \in Conns :
        Called(c, "check_drug_interactions") =>
            \E medicines \in {Get(ArgsOf(conn[c].request), "medicines", <<>>)} :
            \E found \in {InDiscoveryOrder(Combinations(medicines))} :
            \E discovered \in {[p \in 1..Len(found) |-> EntryOf(medicines, found[p])]} :
            \E report \in {ReportOf(ResultOf(c))} :
                /\ \A p, q \in 1..Len(report) :
                       p < q => Rank(report[p].severity) <= Rank(report[q].severity)
                /\ \A s \in {"SEVERE", "MODERATE", "MINOR", "SAFE"} :
                       SelectSeq(report, LAMBDA e : e.severity = s)
                         = SelectSeq(discovered, LAMBDA e : e.severity = s)

\* [lisinopril, Ibuprofen, aspirin]: discovered MODERATE, MINOR, MODERATE and
\* reported MODERATE (pair 1,2), MODERATE (pair 2,3), MINOR (pair 1,3).
C10_Witness ==
    \E c \in Conns :
        /\ conn[c].pc = "done"
        /\ Called(c, "check_drug_interactions")
        /\ ArgsOf(conn[c].request).medicines = <<s_lisinopril, s_Ibuprofen, s_aspirin>>
        /\ LET report == ReportOf(ResultOf(c)) IN
           /\ Len(report) = 3
           /\ report[1].severity = "MODERATE" /\ report[1].drugs = <<s_lisinopril, s_Ibuprofen>>
           /\ report[2].severity = "MODERATE" /\ report[2].drugs = <<s_Ibuprofen, s_aspirin>>
           /\ report[3].severity = "MINOR" /\ report[3].drugs = <<s_lisinopril, s_aspirin>>

=============================================================================
